---- MODULE Spec2Model ----
(***************************************************************************)
(* chclient: http client for ClickHouse (src/chclient.go).                 *)
(*                                                                         *)
(* One call of Ping / Do / DoContext / DoParams on one Client is modelled  *)
(* as a state machine whose steps are the blocking points of doContext and *)
(* doRequest: a request in flight, the read of a non-200 body, the row     *)
(* handler running.  Strings that the code builds (the URL query) are      *)
(* sequences of characters; the network and the servers are the            *)
(* environment and answer nondeterministically.                            *)
(***************************************************************************)
EXTENDS Integers, Sequences, FiniteSets, TLC

VARIABLES
    c,          \* the Client value (chclient.go:20-50)
    op,         \* which public method was called
    query,      \* the query text
    given,      \* the Params argument of DoParams, NoParams otherwise
    params,     \* the Params value doContext was given
    f,          \* the ReadRowsFunc: "nil" or "f"
    ctx,        \* the context of the call: has a deadline or not, and its time
    pc,         \* position of the call inside doContext / doRequest
    addr,       \* doContext's local addr
    err,        \* doContext's local err (result of the primary doRequest)
    resp,       \* doContext's local resp (the accepted response)
    req,        \* the request prepareRequest returned last
    net,        \* the requests sent so far, each with what the network did
    bodies,     \* response bodies opened by the call: id -> "open"/"closed"
    ctChecked,  \* TRUE once the Content-Type header was inspected
    reader,     \* id of the body the tsvreader was created over, 0 if none
    handlerCalls, \* number of invocations of f
    fret,       \* what f returned and what r.Error() reported after it
    result,     \* the error returned by the call
    now,        \* the clock
    started,    \* time.Now() as read when the call was entered
    seen,       \* the rows the handler got from the reader, in order
    rerr,       \* the reader's error: "nil", "EOF" or a failure
    calls,      \* the calls that run concurrently on c, each with its locals
    spare       \* the cells of c.Params.URLParams' array beyond its length

vars == <<c, op, query, given, params, f, ctx, pc, addr, err, resp, req, net,
          bodies, ctChecked, reader, handlerCalls, fret, result, now, started,
          seen, rerr, calls, spare>>

-----------------------------------------------------------------------------
(* Bounds of the model *)

MaxURLParams == 2
MaxNow == 1
MaxRows == 1
MaxSpare == 2

-----------------------------------------------------------------------------
(* Program constants *)

DefaultTimeout == 30
StatusOK == 200

DefaultAddr == "localhost:8123"

\* "default"
StrDefault == <<"d","e","f","a","u","l","t">>
\* "user="
StrUserEq == <<"u","s","e","r","=">>
\* "password="
StrPasswordEq == <<"p","a","s","s","w","o","r","d","=">>
\* "database="
StrDatabaseEq == <<"d","a","t","a","b","a","s","e","=">>
\* "enable_http_compression=1"
StrCompression == <<"e","n","a","b","l","e","_","h","t","t","p","_",
                    "c","o","m","p","r","e","s","s","i","o","n","=","1">>
\* "&"
StrAmp == <<"&">>

\* The Content-Type prefix doContext expects, as a sequence of segments.
TSVPrefix == <<"text/tab-separated-values">>

-----------------------------------------------------------------------------
(* Input domains *)

\* "user=foo", "no_cache=1"
URLParamPool == { <<"u","s","e","r","=","f","o","o">>,
                  <<"n","o","_","c","a","c","h","e","=","1">> }

RECURSIVE SeqsUpTo(_, _)
SeqsUpTo(S, n) ==
    IF n = 0 THEN { <<>> }
    ELSE LET shorter == SeqsUpTo(S, n - 1)
         IN  shorter \cup { Append(s, x) : s \in shorter, x \in S }

Users == { <<>>, <<"a"," ","b">> }
Passwords == { <<>>, <<"p","&","w">> }
Databases == { <<>>, <<"d","b">> }

ParamsSet ==
    [ User : Users, Password : Passwords, Database : Databases,
      URLParams : SeqsUpTo(URLParamPool, MaxURLParams) ]

\* The Params values DoParams is called with.
CallParamsSet ==
    { [User |-> <<>>, Password |-> <<>>, Database |-> <<>>, URLParams |-> <<>>],
      [User |-> <<>>, Password |-> <<"p","&","w">>, Database |-> <<>>,
       URLParams |-> <<>>],
      [User |-> <<"a"," ","b">>, Password |-> <<>>, Database |-> <<"d","b">>,
       URLParams |-> << <<"u","s","e","r","=","f","o","o">> >>],
      [User |-> <<>>, Password |-> <<"s","3">>, Database |-> <<>>,
       URLParams |-> <<>>] }

\* The Params embedded in the Client.
ClientParamsSet ==
    { [User |-> <<>>, Password |-> <<>>, Database |-> <<>>, URLParams |-> <<>>],
      [User |-> <<"a"," ","b">>, Password |-> <<"p","&","w">>,
       Database |-> <<"d","b">>,
       URLParams |-> << <<"n","o","_","c","a","c","h","e","=","1">> >>] }

Addrs == { "", "ch1:8123" }
FallbackAddrs == { "", "ch2:8123" }
Timeouts == { 0, 1 }

ClientSet ==
    [ Addr : Addrs, FallbackAddr : FallbackAddrs, UseHTTPS : BOOLEAN,
      CompressResponse : BOOLEAN, Timeout : Timeouts, Params : ClientParamsSet ]

Queries == { "SELECT 2" }
Handlers == { "nil", "f" }

\* Contexts a caller of DoContext can pass.
CallerCtxs == { [has |-> FALSE, at |-> 0], [has |-> TRUE, at |-> 1] }

\* Status codes with which a server refuses a query.
FailStatuses == { 204, 500 }

ContentTypes == { <<"text/tab-separated-values">>,
                  <<"text/tab-separated-values", "; charset=UTF-8">>,
                  <<"text/html">>,
                  <<>> }

\* A body of n rows: <<0, 1, ..., n-1>>
RowsOf(n) == [ i \in 1..n |-> i - 1 ]
BodySet == { RowsOf(n) : n \in 0..MaxRows }

\* What a row handler and the tsvreader can report.
HandlerErrs == { "nil", "handler failed" }
StreamErrs == { "nil", "cannot parse row" }

\* The calls that run at the same time on one Client.
Calls == { "A", "B" }

\* Clients that calls share.
SharedClientSet ==
    [ Addr : {""}, FallbackAddr : FallbackAddrs, UseHTTPS : {FALSE},
      CompressResponse : BOOLEAN, Timeout : {0}, Params : ClientParamsSet ]

\* The Params values DoParams is called with on a shared Client: copies of
\* the Client's Params, whose URLParams is the Client's own slice.
SharedCallParams(cl) ==
    { cl.Params, [cl.Params EXCEPT !.Password = <<"s","3">>] }

-----------------------------------------------------------------------------
(* Error values *)

Nil == [kind |-> "nil"]
Pending == [kind |-> "pending"]
NoResp == [id |-> 0, status |-> 0, ct |-> <<>>, body |-> <<>>]
NoParams == [User |-> <<>>, Password |-> <<>>, Database |-> <<>>,
             URLParams |-> <<>>]
InFlight == [kind |-> "inflight"]
NoReq == [method |-> "none"]
NotReturned == [herr |-> "-", serr |-> "-"]

\* args before prepareRequest made it.
NoArgs == [shared |-> FALSE, n |-> 0, own |-> <<>>]

\* A call that has not been entered.
IdleCall ==
    [pc |-> "idle", op |-> "none", q |-> "", p |-> NoParams,
     ctx |-> [has |-> FALSE, at |-> 0], addr |-> "", args |-> NoArgs,
     reqs |-> <<>>, outs |-> <<>>, err |-> Nil, result |-> Pending]

NoCalls == [ k \in Calls |-> IdleCall ]

\* context.Background(): no deadline
Background == [has |-> FALSE, at |-> 0]

\* The *url.Error http.Client.Do returns: it echoes method and URL.
URLError(rq, why) ==
    [method |-> rq.method, scheme |-> rq.scheme, addr |-> rq.addr,
     rawQuery |-> rq.rawQuery, why |-> why]

\* fmt.Errorf("error when performing query %q at %q: %s", query, addr, err)
TransportError(q, a, cause) ==
    [kind |-> "TransportError", query |-> q, addr |-> a, cause |-> cause]

\* fmt.Errorf("unexpected status code for query %q sent to %q: %d. Response body: %q", ...)
StatusError(q, a, code, respBody) ==
    [kind |-> "StatusError", query |-> q, addr |-> a, code |-> code,
     body |-> respBody]

\* fmt.Errorf("cannot request neither primary nor fallback address: %q and %q", err, err2)
CombinedErrorSwapped(e1, e2) ==
    [kind |-> "Combined", first |-> e2, second |-> e1]

CombinedError(e1, e2) ==
    [kind |-> "Combined", first |-> e1, second |-> e2]

\* The Content-Type error, were it to name the primary address always.
ContentTypeErrorPrimary(q, a, ct) ==
    [kind |-> "ContentTypeError", query |-> q,
     addr |-> IF c.Addr = "" THEN DefaultAddr ELSE c.Addr, ct |-> ct,
     expecting |-> TSVPrefix]

\* fmt.Errorf("unexpected Content-Type for query %q sent to %q: %q. Expecting %q", ...)
ContentTypeError(q, a, ct) ==
    [kind |-> "ContentTypeError", query |-> q, addr |-> a, ct |-> ct,
     expecting |-> TSVPrefix]

HandlerError(e) == [kind |-> "HandlerError", msg |-> e]
StreamError(e) == [kind |-> "StreamError", msg |-> e]

-----------------------------------------------------------------------------
(* Pure functions *)

\* A prefix test that accepts everything.
HasPrefixAlways(s, prefix) == TRUE

\* strings.HasPrefix
HasPrefix(s, prefix) ==
    /\ Len(s) >= Len(prefix)
    /\ SubSeq(s, 1, Len(prefix)) = prefix

\* net/url shouldEscape in query-component mode: letters, digits and -_.~
\* pass, everything else is escaped.
Unreserved ==
    { "a","b","c","d","e","f","g","h","i","j","k","l","m","n","o","p","q",
      "r","s","t","u","v","w","x","y","z","0","1","2","3","4","5","6","7",
      "8","9","-","_",".","~" }

\* %XX of the escaped characters the model's inputs contain.
HexOf(ch) ==
    CASE ch = "&" -> <<"%","2","6">>
      [] ch = "=" -> <<"%","3","D">>
      [] ch = "%" -> <<"%","2","5">>
      [] ch = "+" -> <<"%","2","B">>

\* url.QueryEscape
RECURSIVE QueryEscape(_)
QueryEscape(s) ==
    IF s = <<>> THEN <<>>
    ELSE LET ch == Head(s)
             e  == IF ch \in Unreserved THEN <<ch>>
                   ELSE IF ch = " " THEN <<"+">>
                   ELSE HexOf(ch)
         IN  e \o QueryEscape(Tail(s))

\* strings.Join
RECURSIVE Join(_, _)
Join(elems, sep) ==
    IF elems = <<>> THEN <<>>
    ELSE IF Len(elems) = 1 THEN elems[1]
    ELSE elems[1] \o sep \o Join(Tail(elems), sep)

\* Client.addr
ClientAddr(cl) == IF cl.Addr = "" THEN DefaultAddr ELSE cl.Addr

\* Client.timeout without the default.
ClientTimeoutNoDefault(cl) == cl.Timeout

\* Client.timeout
ClientTimeout(cl) == IF cl.Timeout <= 0 THEN DefaultTimeout ELSE cl.Timeout

\* The args slice of prepareRequest with password and database swapped.
prepareRequestArgsSwapped(cl, p) ==
    LET user == IF Len(p.User) > 0 THEN QueryEscape(p.User) ELSE StrDefault
        a1 == Append(p.URLParams, StrUserEq \o user)
        a2 == IF p.Database # <<>>
              THEN Append(a1, StrDatabaseEq \o QueryEscape(p.Database))
              ELSE a1
        a3 == IF p.Password # <<>>
              THEN Append(a2, StrPasswordEq \o QueryEscape(p.Password))
              ELSE a2
    IN  IF cl.CompressResponse THEN Append(a3, StrCompression) ELSE a3

\* The args slice built by prepareRequest.
prepareRequestArgs(cl, p) ==
    LET user == IF Len(p.User) > 0 THEN QueryEscape(p.User) ELSE StrDefault
        a1 == Append(p.URLParams, StrUserEq \o user)
        a2 == IF p.Password # <<>>
              THEN Append(a1, StrPasswordEq \o QueryEscape(p.Password))
              ELSE a1
        a3 == IF p.Database # <<>>
              THEN Append(a2, StrDatabaseEq \o QueryEscape(p.Database))
              ELSE a2
    IN  IF cl.CompressResponse THEN Append(a3, StrCompression) ELSE a3

\* The request, were Accept-Encoding: gzip set by hand when compression is on.
prepareRequestExplicitGzip(cl, a, q, p) ==
    [method |-> "POST",
     scheme |-> IF cl.UseHTTPS THEN "https" ELSE "http",
     addr |-> a,
     rawQuery |-> Join(prepareRequestArgs(cl, p), StrAmp),
     body |-> q,
     acceptEncoding |-> IF ~cl.CompressResponse THEN "identity" ELSE "gzip",
     ctx |-> Background]

\* Client.prepareRequest: the request for xurl = scheme://addr/?rawQuery
prepareRequest(cl, a, q, p) ==
    [method |-> "POST",
     scheme |-> IF cl.UseHTTPS THEN "https" ELSE "http",
     addr |-> a,
     rawQuery |-> Join(prepareRequestArgs(cl, p), StrAmp),
     body |-> q,
     acceptEncoding |-> IF ~cl.CompressResponse THEN "identity" ELSE "unset",
     ctx |-> Background]

\* A request that keeps the background context.
WithContextDropped(rq, cx) == rq

\* req.WithContext(ctx)
WithContext(rq, cx) == [rq EXCEPT !.ctx = cx]

\* context.WithDeadline(context.Background(), time.Now().Add(c.timeout()))
WithDeadline(cl, t) == [has |-> TRUE, at |-> t + ClientTimeout(cl)]

\* The merge of per-call and client-level Params, field by field.
DoParamsArgMerged(cl, p) ==
    [User |-> IF p.User = <<>> THEN cl.Params.User ELSE p.User,
     Password |-> IF p.Password = <<>> THEN cl.Params.Password ELSE p.Password,
     Database |-> IF p.Database = <<>> THEN cl.Params.Database ELSE p.Database,
     URLParams |-> p.URLParams \o cl.Params.URLParams]

\* The Params DoParams hands to doContext.
DoParamsArg(cl, p) == p

\* The Params DoContext hands to doContext.
DoContextArg(cl) == cl.Params

\* A fallback is always assumed.
HasFallbackAlways(a) == TRUE

\* len(addr) == 0 decides whether there is a fallback address.
HasFallback(a) == a # ""

\* f is never taken to be nil.
HandlerIsNilNever(h) == FALSE

\* f == nil
HandlerIsNil(h) == h = "nil"

\* The response doContext goes on with after the fallback answered,
\* were resp = resp2 left out.
AcceptFallbackKeepFirst(r, r2) == r

\* resp = resp2
AcceptFallback(r, r2) == r2

\* A body left open.
BodyLeftOpen(b, id) == b

\* resp.Body.Close() of doRequest, after a status that is not 200
CloseAfterStatus(b, id) == [b EXCEPT ![id] = "closed"]

\* defer resp.Body.Close() of doContext
DeferredClose(b, id) == [b EXCEPT ![id] = "closed"]

\* A body that is already closed when the response is handed over.
BodyOpenedClosed(b, id) == (id :> "closed") @@ b

\* The body of a received response becomes readable.
BodyOpen(b, id) == (id :> "open") @@ b

\* r.Error(): the end of the body is not an error.
ReaderError(e) == IF e = "EOF" THEN "nil" ELSE e

\* The result of doContext, were r.Error() looked at before f's error.
HandlerResultStreamFirst(herr, serr) ==
    IF serr # "nil" THEN StreamError(serr)
    ELSE IF herr # "nil" THEN HandlerError(herr)
    ELSE Nil

\* The result of doContext after f returned.
HandlerResult(herr, serr) ==
    IF herr # "nil" THEN HandlerError(herr)
    ELSE IF serr # "nil" THEN StreamError(serr)
    ELSE Nil

-----------------------------------------------------------------------------
(* The environment: what a server can answer *)

Responses ==
    [ kind : {"response"}, status : {StatusOK}, ct : ContentTypes,
      body : BodySet ]
    \cup
    [ kind : {"response"}, status : FailStatuses, ct : { <<"text/plain">> },
      body : BodySet ]

\* A compressed body on the wire: a header, then every row transformed.
Gzip(b) == <<31>> \o [ i \in 1..Len(b) |-> 255 - b[i] ]

\* What decompression gives back.
Gunzip(w) == [ i \in 1..(Len(w) - 1) |-> 255 - w[i + 1] ]

\* The Accept-Encoding the transport sends: its own "gzip" when the request
\* sets none (the comment of lines 208-211).
SentAcceptEncoding(rq) ==
    IF rq.acceptEncoding = "unset" THEN "gzip" ELSE rq.acceptEncoding

\* The server compresses when the query string asks for it (line 198) and
\* the request accepts gzip.
ServerCompresses(rq) ==
    /\ \E i \in 1..Len(rq.rawQuery) :
         SubSeq(rq.rawQuery, i, Len(rq.rawQuery)) = StrCompression
    /\ SentAcceptEncoding(rq) = "gzip"

\* The body as it is on the wire.
WireBody(rq, rows) == IF ServerCompresses(rq) THEN Gzip(rows) ELSE rows

\* resp.Body as http.DefaultClient.Do hands it over: decompressed only when
\* the transport asked for gzip by itself.
ResponseBody(rq, rows) ==
    IF rq.acceptEncoding = "unset" /\ ServerCompresses(rq)
    THEN Gunzip(WireBody(rq, rows))
    ELSE WireBody(rq, rows)

\* The deadline of the context a request carries has passed.
Expired(rq) == rq.ctx.has /\ now >= rq.ctx.at

-----------------------------------------------------------------------------
(* The state machine of one call *)

Init ==
    /\ c \in ClientSet
    /\ op = "none"
    /\ query = ""
    /\ given = NoParams
    /\ params = NoParams
    /\ f = "nil"
    /\ ctx = Background
    /\ pc = "idle"
    /\ addr = ""
    /\ err = Nil
    /\ resp = NoResp
    /\ req = NoReq
    /\ net = <<>>
    /\ bodies = <<>>
    /\ ctChecked = FALSE
    /\ reader = 0
    /\ handlerCalls = 0
    /\ fret = NotReturned
    /\ result = Pending
    /\ now = 0
    /\ started = 0
    /\ seen = <<>>
    /\ rerr = "nil"
    /\ calls = NoCalls
    /\ spare = <<>>

\* doRequest up to http.DefaultClient.Do(req): the request put on the wire
doRequestSend(cl, cx, a, q, p) == WithContext(prepareRequest(cl, a, q, p), cx)

\* doContext from its entry to the primary request being in flight
Enter(o, q, g, p, h, cx) ==
    /\ pc = "idle"
    /\ op' = o
    /\ query' = q
    /\ given' = g
    /\ params' = p
    /\ f' = h
    /\ ctx' = cx
    /\ addr' = ClientAddr(c)
    /\ req' = doRequestSend(c, cx, ClientAddr(c), q, p)
    /\ net' = << [req |-> req', out |-> InFlight] >>
    /\ pc' = "request"
    /\ started' = now
    /\ UNCHANGED <<c, err, resp, bodies, ctChecked, reader, handlerCalls,
                   fret, result, now, seen, rerr, calls, spare>>

\* Client.Ping
Ping ==
    Enter("Ping", "SELECT 1", NoParams, DoContextArg(c), "nil",
          WithDeadline(c, now))

\* Client.Do
Do ==
    \E q \in Queries, h \in Handlers :
        Enter("Do", q, NoParams, DoContextArg(c), h, WithDeadline(c, now))

\* Client.DoContext
DoContext ==
    \E cx \in CallerCtxs, q \in Queries, h \in Handlers :
        Enter("DoContext", q, NoParams, DoContextArg(c), h, cx)

\* Client.DoParams
DoParams ==
    \E q \in Queries, p \in CallParamsSet, h \in Handlers :
        Enter("DoParams", q, p, DoParamsArg(c, p), h, WithDeadline(c, now))

\* doContext after a doRequest returned the error e: lines 127-137
AttemptFailed(e, b) ==
    /\ bodies' = b
    /\ IF Len(net) = 1
       THEN /\ err' = e
            /\ addr' = c.FallbackAddr
            /\ IF ~HasFallback(c.FallbackAddr)
               THEN /\ result' = e
                    /\ pc' = "done"
               ELSE /\ pc' = "request"
                    /\ result' = result
       ELSE /\ result' = CombinedError(err, e)
            /\ pc' = "done"
            /\ UNCHANGED <<err, addr>>
    /\ UNCHANGED <<c, op, query, given, params, f, ctx, resp, ctChecked,
                   reader, handlerCalls, fret, now, started, seen,
                   rerr, calls, spare>>

\* The attempt in flight ended with outcome o; when doContext goes on to the
\* fallback (line 134), the fallback request is put on the wire.
NetAfterFailure(o) ==
    LET n == [net EXCEPT ![Len(net)].out = o]
    IN  IF Len(net) = 1 /\ HasFallback(c.FallbackAddr)
        THEN /\ req' = doRequestSend(c, ctx, c.FallbackAddr, query, params)
             /\ net' = Append(n, [req |-> req', out |-> InFlight])
        ELSE /\ req' = req
             /\ net' = n

\* http.DefaultClient.Do returns an error: lines 163-165, then 127-137
RecvTransportError ==
    /\ pc = "request"
    /\ LET why == IF Expired(req) THEN "deadline" ELSE "refused"
       IN  /\ NetAfterFailure([kind |-> why])
           /\ AttemptFailed(TransportError(query, addr, URLError(req, why)),
                            bodies)

\* doContext with the accepted response r: lines 140-152
Accepted(r) ==
    /\ resp' = r
    /\ IF HandlerIsNil(f)
       THEN /\ bodies' = DeferredClose(BodyOpen(bodies, Len(net)), r.id)
            /\ result' = Nil
            /\ pc' = "done"
            /\ UNCHANGED <<ctChecked, reader, handlerCalls>>
       ELSE /\ ctChecked' = TRUE
            /\ IF ~HasPrefix(r.ct, TSVPrefix)
               THEN /\ bodies' = DeferredClose(BodyOpen(bodies, Len(net)), r.id)
                    /\ result' = ContentTypeError(query, addr, r.ct)
                    /\ pc' = "done"
                    /\ UNCHANGED <<reader, handlerCalls>>
               ELSE /\ bodies' = BodyOpen(bodies, Len(net))
                    /\ reader' = r.id
                    /\ handlerCalls' = handlerCalls + 1
                    /\ pc' = "handler"
                    /\ result' = result

\* http.DefaultClient.Do returns a response: lines 166-172, then 138-152
RecvResponse ==
    /\ pc = "request"
    /\ ~Expired(req)
    /\ \E o \in Responses :
        LET i == Len(net)
            r == [id |-> i, status |-> o.status, ct |-> o.ct,
                  body |-> ResponseBody(req, o.body)]
        IN  /\ net' = [net EXCEPT ![i].out = o]
            /\ IF o.status # StatusOK
               THEN /\ bodies' = BodyOpen(bodies, i)
                    /\ pc' = "errbody"
                    /\ UNCHANGED <<resp, ctChecked, reader, handlerCalls,
                                   result>>
               ELSE Accepted(IF i = 1 THEN r ELSE AcceptFallback(resp, r))
    /\ UNCHANGED <<c, op, query, given, params, f, ctx, addr, err, req, fret,
                   now, started, seen,
                   rerr, calls, spare>>

\* ioutil.ReadAll(resp.Body) ends, with the whole body or, on a read
\* error, a part of it: lines 167-170, then 127-137
ReadErrBody ==
    /\ pc = "errbody"
    /\ LET o == net[Len(net)].out
           b == ResponseBody(req, o.body)
       IN  \E k \in 0..Len(b) :
             /\ NetAfterFailure(o)
             /\ AttemptFailed(StatusError(query, addr, o.status,
                                          SubSeq(b, 1, k)),
                              CloseAfterStatus(bodies, Len(net)))

\* f calls r.Next() of the reader made at line 152: the next row of the body,
\* the end of the body, or a failure of the stream
HandlerNext ==
    /\ pc = "handler"
    /\ rerr = "nil"
    /\ \/ /\ Len(seen) < Len(resp.body)
          /\ seen' = Append(seen, resp.body[Len(seen) + 1])
          /\ rerr' = rerr
       \/ /\ Len(seen) = Len(resp.body)
          /\ rerr' = "EOF"
          /\ seen' = seen
       \/ /\ rerr' \in StreamErrs \ {"nil"}
          /\ seen' = seen
    /\ UNCHANGED <<c, op, query, given, params, f, ctx, pc, addr, err, resp,
                   req, net, bodies, ctChecked, reader, handlerCalls, fret,
                   result, now, started, calls, spare>>

\* f(r) returns: lines 153-156 and the deferred Close
HandlerReturn ==
    /\ pc = "handler"
    /\ \E herr \in HandlerErrs :
        LET serr == ReaderError(rerr)
        IN  /\ fret' = [herr |-> herr, serr |-> serr]
            /\ result' = HandlerResult(herr, serr)
    /\ bodies' = DeferredClose(bodies, resp.id)
    /\ pc' = "done"
    /\ UNCHANGED <<c, op, query, given, params, f, ctx, addr, err, resp, req,
                   net, ctChecked, reader, handlerCalls, now, started, seen,
                   rerr, calls, spare>>

\* Time passes before the call and while the call is blocked.
Tick ==
    /\ pc \in {"idle", "request", "errbody", "handler"}
    /\ now < MaxNow
    /\ now' = now + 1
    /\ UNCHANGED <<c, op, query, given, params, f, ctx, pc, addr, err, resp,
                   req, net, bodies, ctChecked, reader, handlerCalls, fret,
                   result, started, seen,
                   rerr, calls, spare>>

Next ==
    \/ Ping
    \/ Do
    \/ DoContext
    \/ DoParams
    \/ RecvTransportError
    \/ RecvResponse
    \/ ReadErrBody
    \/ HandlerNext
    \/ HandlerReturn
    \/ Tick

Spec == Init /\ [][Next]_vars

-----------------------------------------------------------------------------
(* prepareRequest on its own, over every Params value *)

BuildClientSet ==
    [ Addr : Addrs, FallbackAddr : {""}, UseHTTPS : BOOLEAN,
      CompressResponse : BOOLEAN, Timeout : {0}, Params : {NoParams} ]

InitBuild ==
    /\ c \in BuildClientSet
    /\ op = "prepareRequest"
    /\ query \in Queries
    /\ given \in ParamsSet
    /\ params = given
    /\ f = "nil"
    /\ ctx = Background
    /\ pc = "idle"
    /\ addr = ClientAddr(c)
    /\ err = Nil
    /\ resp = NoResp
    /\ req = NoReq
    /\ net = <<>>
    /\ bodies = <<>>
    /\ ctChecked = FALSE
    /\ reader = 0
    /\ handlerCalls = 0
    /\ fret = NotReturned
    /\ result = Pending
    /\ now = 0
    /\ started = 0
    /\ seen = <<>>
    /\ rerr = "nil"
    /\ calls = NoCalls
    /\ spare = <<>>

\* req := c.prepareRequest(addr, query, params)
BuildRequest ==
    /\ pc = "idle"
    /\ req' = prepareRequest(c, addr, query, params)
    /\ pc' = "built"
    /\ UNCHANGED <<c, op, query, given, params, f, ctx, addr, err, resp, net,
                   bodies, ctChecked, reader, handlerCalls, fret, result,
                   now, started, seen,
                   rerr, calls, spare>>

NextBuild == BuildRequest

SpecBuild == InitBuild /\ [][NextBuild]_vars

TypeOK ==
    /\ pc \in {"idle", "request", "errbody", "handler", "done", "built"}
    /\ Len(net) <= 2

-----------------------------------------------------------------------------
(* Calls running concurrently on one Client, prepareRequest line by line *)

\* The variables of the one-call state machine.
callVars ==
    <<op, query, given, params, f, ctx, pc, addr, err, resp, req, net, bodies,
      ctChecked, reader, handlerCalls, fret, result, now, started, seen, rerr>>

\* The answers a server gives to a call with a nil handler.
SharedOutcomes ==
    { [kind |-> "refused"] } \cup
    { o \in Responses :
        /\ o.body = RowsOf(0)
        /\ o.ct \in { <<"text/plain">>, <<"text/tab-separated-values">> } }

InitShared ==
    /\ c \in SharedClientSet
    /\ op = "none"
    /\ query = ""
    /\ given = NoParams
    /\ params = NoParams
    /\ f = "nil"
    /\ ctx = Background
    /\ pc = "idle"
    /\ addr = ""
    /\ err = Nil
    /\ resp = NoResp
    /\ req = NoReq
    /\ net = <<>>
    /\ bodies = <<>>
    /\ ctChecked = FALSE
    /\ reader = 0
    /\ handlerCalls = 0
    /\ fret = NotReturned
    /\ result = Pending
    /\ now = 0
    /\ started = 0
    /\ seen = <<>>
    /\ rerr = "nil"
    /\ calls = NoCalls
    /\ spare = [ i \in 1..MaxSpare |-> <<>> ]

\* args := an alias of params.URLParams, with no copy made.
NewArgsAliased(p) == [shared |-> TRUE, n |-> Len(p.URLParams), own |-> <<>>]

\* args := make([]string, 0, len(params.URLParams)+4), every element copied
NewArgs(p) == [shared |-> FALSE, n |-> Len(p.URLParams), own |-> p.URLParams]

\* The elements of a slice: its own array, or the Client's array, which goes
\* on into the spare cells.
SliceElems(sl) ==
    IF sl.shared
    THEN c.Params.URLParams
         \o SubSeq(spare, 1, sl.n - Len(c.Params.URLParams))
    ELSE sl.own

\* args = append(args, x) in call k, which goes on to the line named by to:
\* in place while the array has room, into a new array otherwise.
AppendArg(k, x, to) ==
    LET sl == calls[k].args
        used == sl.n - Len(c.Params.URLParams)
    IN  IF sl.shared /\ used < Len(spare)
        THEN /\ spare' = [spare EXCEPT ![used + 1] = x]
             /\ calls' = [calls EXCEPT ![k].args.n = sl.n + 1, ![k].pc = to]
        ELSE /\ spare' = spare
             /\ calls' = [calls EXCEPT
                            ![k].args = [shared |-> FALSE, n |-> sl.n + 1,
                                         own |-> Append(SliceElems(sl), x)],
                            ![k].pc = to]

\* A condition of prepareRequest is false: nothing is appended.
SkipArg(k, to) ==
    /\ calls' = [calls EXCEPT ![k].pc = to]
    /\ spare' = spare

\* Do, DoContext or DoParams is entered: lines 95-125
StartCall(k) ==
    /\ calls[k].pc = "idle"
    /\ \E o \in {"Do", "DoContext", "DoParams"}, q \in Queries,
          g \in SharedCallParams(c) :
         calls' = [calls EXCEPT ![k] =
            [IdleCall EXCEPT
               !.pc = "make", !.op = o, !.q = q,
               !.p = IF o = "DoParams" THEN DoParamsArg(c, g)
                     ELSE DoContextArg(c),
               !.ctx = IF o = "DoContext" THEN Background
                       ELSE WithDeadline(c, now),
               !.addr = ClientAddr(c)]]
    /\ UNCHANGED <<c, callVars, spare>>

\* lines 181-184
MakeArgs(k) ==
    /\ calls[k].pc = "make"
    /\ calls' = [calls EXCEPT ![k].args = NewArgs(calls[k].p),
                              ![k].pc = "user"]
    /\ UNCHANGED <<c, callVars, spare>>

\* lines 186-190
AppendUser(k) ==
    /\ calls[k].pc = "user"
    /\ LET p == calls[k].p
       IN  AppendArg(k, StrUserEq \o (IF Len(p.User) > 0
                                     THEN QueryEscape(p.User)
                                     ELSE StrDefault), "password")
    /\ UNCHANGED <<c, callVars>>

\* lines 191-193
AppendPassword(k) ==
    /\ calls[k].pc = "password"
    /\ LET p == calls[k].p
       IN  IF p.Password # <<>>
           THEN AppendArg(k, StrPasswordEq \o QueryEscape(p.Password),
                          "database")
           ELSE SkipArg(k, "database")
    /\ UNCHANGED <<c, callVars>>

\* lines 194-196
AppendDatabase(k) ==
    /\ calls[k].pc = "database"
    /\ LET p == calls[k].p
       IN  IF p.Database # <<>>
           THEN AppendArg(k, StrDatabaseEq \o QueryEscape(p.Database),
                          "compress")
           ELSE SkipArg(k, "compress")
    /\ UNCHANGED <<c, callVars>>

\* lines 197-199
AppendCompress(k) ==
    /\ calls[k].pc = "compress"
    /\ IF c.CompressResponse
       THEN AppendArg(k, StrCompression, "send")
       ELSE SkipArg(k, "send")
    /\ UNCHANGED <<c, callVars>>

\* lines 200-216, then 161-162: the request goes on the wire
SendRequest(k) ==
    /\ calls[k].pc = "send"
    /\ LET rq == [method |-> "POST",
                  scheme |-> IF c.UseHTTPS THEN "https" ELSE "http",
                  addr |-> calls[k].addr,
                  rawQuery |-> Join(SliceElems(calls[k].args), StrAmp),
                  body |-> calls[k].q,
                  acceptEncoding |-> IF ~c.CompressResponse THEN "identity"
                                     ELSE "unset",
                  ctx |-> Background]
       IN  calls' = [calls EXCEPT
                       ![k].reqs = Append(@, WithContext(rq, calls[k].ctx)),
                       ![k].pc = "wait"]
    /\ UNCHANGED <<c, callVars, spare>>

\* http.DefaultClient.Do returns in call k: lines 162-172, then 127-144 with
\* a nil handler
Reply(k) ==
    /\ calls[k].pc = "wait"
    /\ \E o \in SharedOutcomes :
        LET cl == calls[k]
            rq == cl.reqs[Len(cl.reqs)]
            e == IF o.kind # "response"
                 THEN TransportError(cl.q, cl.addr, URLError(rq, o.kind))
                 ELSE StatusError(cl.q, cl.addr, o.status,
                                  ResponseBody(rq, o.body))
            got == [cl EXCEPT !.outs = Append(@, o)]
        IN  calls' = [calls EXCEPT ![k] =
              IF o.kind = "response" /\ o.status = StatusOK
              THEN [got EXCEPT !.result = Nil, !.pc = "done"]
              ELSE IF Len(cl.reqs) = 1
                   THEN IF ~HasFallback(c.FallbackAddr)
                        THEN [got EXCEPT !.err = e, !.result = e,
                                         !.addr = c.FallbackAddr,
                                         !.pc = "done"]
                        ELSE [got EXCEPT !.err = e, !.addr = c.FallbackAddr,
                                         !.pc = "make"]
                   ELSE [got EXCEPT !.result = CombinedError(cl.err, e),
                                    !.pc = "done"]]
    /\ UNCHANGED <<c, callVars, spare>>

NextShared ==
    \E k \in Calls :
        \/ StartCall(k)
        \/ MakeArgs(k)
        \/ AppendUser(k)
        \/ AppendPassword(k)
        \/ AppendDatabase(k)
        \/ AppendCompress(k)
        \/ SendRequest(k)
        \/ Reply(k)

SpecShared == InitShared /\ [][NextShared]_vars

-----------------------------------------------------------------------------
(* Vocabulary of the properties *)

IsTransportFailure(o) == o.kind \in {"refused", "deadline"}
IsResponse(o) == o.kind = "response"
IsOK(o) == IsResponse(o) /\ o.status = StatusOK
IsStatusFailure(o) == IsResponse(o) /\ o.status # StatusOK

\* The outcome class of an error value that is not a combination.
OutcomeOf(e) == IF e.kind = "nil" THEN "Success" ELSE e.kind

\* The outcome classes an error value reports.
Outcomes(e) ==
    IF e.kind = "Combined"
    THEN {OutcomeOf(e.first), OutcomeOf(e.second)}
    ELSE {OutcomeOf(e)}

OutcomeClasses ==
    {"Success", "TransportError", "StatusError", "ContentTypeError",
     "HandlerError", "StreamError"}

\* The error doRequest returns for the i-th request when the transport failed.
TransportErrorOf(i) ==
    [kind |-> "TransportError", query |-> query, addr |-> net[i].req.addr,
     cause |-> [method |-> "POST", scheme |-> net[i].req.scheme,
                addr |-> net[i].req.addr, rawQuery |-> net[i].req.rawQuery,
                why |-> net[i].out.kind]]

\* The addresses an error value names.
AddrsNamed(e) ==
    IF e.kind = "Combined"
    THEN {e.first.addr, e.second.addr}
    ELSE IF e.kind = "TransportError" THEN {e.addr, e.cause.addr}
    ELSE IF e.kind \in {"StatusError", "ContentTypeError"} THEN {e.addr}
    ELSE {}

\* The query string as a list of parts: extra parameters, user, password,
\* database, compression flag; the three credentials are URL-escaped when
\* escaped is TRUE and taken as they are otherwise.
QueryParts(p, compress, escaped) ==
    LET Enc(str) == IF escaped THEN QueryEscape(str) ELSE str
    IN  p.URLParams
        \o << StrUserEq \o (IF p.User = <<>> THEN StrDefault ELSE Enc(p.User)) >>
        \o (IF p.Password = <<>> THEN <<>>
            ELSE << StrPasswordEq \o Enc(p.Password) >>)
        \o (IF p.Database = <<>> THEN <<>>
            ELSE << StrDatabaseEq \o Enc(p.Database) >>)
        \o (IF compress THEN << StrCompression >> ELSE <<>>)

\* Where the i-th part starts in the joined string, counted from 0.
RECURSIVE Offset(_, _)
Offset(parts, i) ==
    IF i = 1 THEN 0 ELSE Offset(parts, i - 1) + Len(parts[i - 1]) + 1

\* str is the parts in order, with one "&" between neighbours.
IsAmpJoined(str, parts) ==
    /\ Len(str) = IF parts = <<>> THEN 0
                  ELSE Offset(parts, Len(parts)) + Len(parts[Len(parts)])
    /\ \A i \in 1..Len(parts) :
         /\ SubSeq(str, Offset(parts, i) + 1, Offset(parts, i) + Len(parts[i]))
              = parts[i]
         /\ i > 1 => str[Offset(parts, i)] = "&"

-----------------------------------------------------------------------------
(* Properties *)

\* C1: when the primary address answers with a status that is not 200, no
\* request is sent to the fallback address, and the call ends in a status
\* failure that carries the primary's status code.
C1_StatusFailureIsFinal ==
    (Len(net) >= 1 /\ IsStatusFailure(net[1].out)) =>
        /\ Len(net) = 1
        /\ pc = "done" =>
             /\ result.kind = "StatusError"
             /\ result.code = net[1].out.status

\* C2: every response body opened during a call is closed when the call has
\* returned, whatever the exit path; every received response opened one.
C2_BodiesClosedOnReturn ==
    /\ \A i \in 1..Len(net) : IsResponse(net[i].out) => i \in DOMAIN bodies
    /\ pc = "done" => \A i \in DOMAIN bodies : bodies[i] = "closed"

\* C2 witness: a call that opened two bodies (a non-200 primary, then a
\* fallback whose rows the handler read) has returned.
C2_Witness ==
    /\ pc = "done"
    /\ DOMAIN bodies = {1, 2}
    /\ IsStatusFailure(net[1].out)
    /\ fret # NotReturned

\* C3: a call returns exactly one of the six outcomes and sends at most two
\* requests, one to the primary and at most one to the fallback, the fallback
\* one only after the primary attempt has ended in failure.
C3_OneOutcomeAtMostTwoRequests ==
    /\ Len(net) <= 2
    /\ pc # "idle" => Len(net) >= 1 /\ net[1].req.addr = ClientAddr(c)
    /\ Len(net) = 2 =>
         /\ net[2].req.addr = c.FallbackAddr
         /\ net[2].req.addr # net[1].req.addr
         /\ IsTransportFailure(net[1].out) \/ IsStatusFailure(net[1].out)
         /\ pc # "errbody" \/ IsTransportFailure(net[1].out)
    /\ pc = "done" =>
         /\ Outcomes(result) \subseteq OutcomeClasses
         /\ Cardinality(Outcomes(result)) = 1

\* C4: the primary fails at the transport level and the fallback answers 200
\* with a tab-separated Content-Type: the handler is invoked once, on a reader
\* over the fallback's body, the call returns nil when neither handler nor
\* stream reports an error, and no error of the primary is in the result.
C4_FallbackSuccess ==
    ( /\ Len(net) = 2
      /\ IsTransportFailure(net[1].out)
      /\ IsOK(net[2].out)
      /\ HasPrefix(net[2].out.ct, TSVPrefix)
      /\ f # "nil" ) =>
        /\ pc \in {"handler", "done"}
        /\ handlerCalls = 1
        /\ reader = 2
        /\ resp.body = net[2].out.body
        /\ pc = "done" =>
             /\ (fret.herr = "nil" /\ fret.serr = "nil") => result = Nil
             /\ Outcomes(result) \cap {"TransportError", "StatusError"} = {}
             /\ AddrsNamed(result) = {}

\* C4 witness: such a call has returned nil.
C4_Witness ==
    /\ pc = "done"
    /\ Len(net) = 2
    /\ IsTransportFailure(net[1].out)
    /\ IsOK(net[2].out)
    /\ fret = [herr |-> "nil", serr |-> "nil"]
    /\ result = Nil

\* C5: without a fallback address, a transport failure of the primary ends the
\* call: one request only, and the result is the primary attempt's error,
\* which names the primary address only.
C5_NoFallbackConfigured ==
    ( /\ c.FallbackAddr = ""
      /\ Len(net) >= 1
      /\ IsTransportFailure(net[1].out) ) =>
        /\ Len(net) = 1
        /\ pc = "done"
        /\ result = TransportErrorOf(1)
        /\ result = err
        /\ AddrsNamed(result) = {ClientAddr(c)}

\* C5 witness: a call without fallback whose primary was unreachable.
C5_Witness ==
    /\ c.FallbackAddr = ""
    /\ pc = "done"
    /\ IsTransportFailure(net[1].out)

\* C6: both attempts fail at the transport level: the result is one combined
\* error holding the primary's error first and the fallback's second, and the
\* handler is not invoked.
C6_BothTransportFailures ==
    ( /\ Len(net) = 2
      /\ IsTransportFailure(net[1].out)
      /\ IsTransportFailure(net[2].out) ) =>
        /\ pc = "done"
        /\ result.kind = "Combined"
        /\ result.first = TransportErrorOf(1)
        /\ result.second = TransportErrorOf(2)
        /\ result.first.addr = ClientAddr(c)
        /\ result.second.addr = c.FallbackAddr
        /\ handlerCalls = 0
        /\ reader = 0

\* C6 witness: primary and fallback were both unreachable, with a handler given.
C6_Witness ==
    /\ Len(net) = 2
    /\ IsTransportFailure(net[1].out)
    /\ IsTransportFailure(net[2].out)
    /\ f # "nil"
    /\ pc = "done"

\* C7: every request of a call, the fallback one included, carries the context
\* the call was entered with; that context does not change during the call,
\* and once its deadline has passed no attempt of the call gets a response.
C7_SameContext ==
    /\ [](\A i \in 1..Len(net) : net[i].req.ctx = ctx)
    /\ [][ /\ pc # "idle" => ctx' = ctx
           /\ (ctx.has /\ now >= ctx.at) =>
                \A i \in 1..Len(net) :
                    IsResponse(net'[i].out) => IsResponse(net[i].out) ]_vars

\* C7 witness: the primary was refused before the deadline, the fallback
\* request went out, and the fallback attempt ended when that deadline passed.
C7_Witness ==
    /\ Len(net) = 2
    /\ net[1].out.kind = "refused"
    /\ net[2].out.kind = "deadline"
    /\ ctx.has
    /\ net[2].req.ctx.at = ctx.at
    /\ now >= ctx.at

\* C8 as stated: the query string is the "&"-joined list of the URLParams,
\* user=<User or default>, password=<Password>, database=<Database>,
\* enable_http_compression=1, the values taken as they are.
C8_QueryStringVerbatim ==
    pc = "built" =>
        IsAmpJoined(req.rawQuery,
                    QueryParts(params, c.CompressResponse, FALSE))

\* C8 amended: the same list in the same order, with User, Password and
\* Database URL-escaped (url.QueryEscape) and the URLParams verbatim; nothing
\* is deduplicated: URLParams ["user=foo"] with default credentials gives
\* user=foo&user=default.
C8_QueryStringEscaped ==
    pc = "built" =>
        /\ IsAmpJoined(req.rawQuery,
                       QueryParts(params, c.CompressResponse, TRUE))
        /\ ( /\ params.URLParams = << <<"u","s","e","r","=","f","o","o">> >>
             /\ params.User = <<>>
             /\ params.Password = <<>>
             /\ params.Database = <<>>
             /\ ~c.CompressResponse ) =>
               req.rawQuery = <<"u","s","e","r","=","f","o","o","&",
                                "u","s","e","r","=","d","e","f","a","u","l","t">>

\* C8 witness: a request built from two URLParams, a User and a Password with
\* characters that need escaping, a Database, and compression on.
C8_Witness ==
    /\ pc = "built"
    /\ Len(params.URLParams) = 2
    /\ params.User = <<"a"," ","b">>
    /\ params.Password = <<"p","&","w">>
    /\ params.Database # <<>>
    /\ c.CompressResponse
    /\ Len(req.rawQuery) > 0

\* C9: in DoParams the request of every attempt is built from the Params the
\* caller passed and from nothing of the Client's Params: an empty per-call
\* User gives user=default, and the Client's URLParams are not added.
C9_ParamsReplace ==
    op = "DoParams" =>
        \A i \in 1..Len(net) :
            /\ IsAmpJoined(net[i].req.rawQuery,
                           QueryParts(given, c.CompressResponse, TRUE))
            /\ (given.User = <<>> /\ given.URLParams = <<>>) =>
                 SubSeq(net[i].req.rawQuery, 1, 12)
                   = <<"u","s","e","r","=","d","e","f","a","u","l","t">>

\* C9 witness: DoParams with an empty User and no URLParams on a Client that
\* has a User, a Password, a Database and URLParams, primary and fallback
\* requests both sent.
C9_Witness ==
    /\ op = "DoParams"
    /\ Len(net) = 2
    /\ given.User = <<>>
    /\ given.URLParams = <<>>
    /\ given.Database = <<>>
    /\ c.Params.User # <<>>
    /\ c.Params.Database # <<>>
    /\ c.Params.URLParams # <<>>

\* C10: with a nil handler a 200 response ends the call at once: body closed,
\* nil returned, Content-Type not inspected, no reader, no handler call; Ping
\* passes a nil handler, and returns the transport error when the primary is
\* unreachable and no fallback answers.
C10_NilHandler ==
    /\ op = "Ping" => f = "nil" /\ query = "SELECT 1"
    /\ f = "nil" => handlerCalls = 0 /\ reader = 0 /\ ~ctChecked
    /\ \A i \in 1..Len(net) :
         (f = "nil" /\ IsOK(net[i].out)) =>
            /\ pc = "done"
            /\ result = Nil
            /\ bodies[i] = "closed"
    /\ ( /\ op = "Ping"
         /\ Len(net) >= 1
         /\ IsTransportFailure(net[1].out)
         /\ (c.FallbackAddr = "" \/ (Len(net) = 2
                                     /\ IsTransportFailure(net[2].out))) ) =>
           /\ pc = "done"
           /\ Outcomes(result) = {"TransportError"}
           /\ result = IF c.FallbackAddr = "" THEN TransportErrorOf(1)
                       ELSE [kind |-> "Combined", first |-> TransportErrorOf(1),
                             second |-> TransportErrorOf(2)]

\* C10 witness: Ping returned nil on a 200 response whose Content-Type is not
\* tab-separated.
C10_Witness ==
    /\ op = "Ping"
    /\ pc = "done"
    /\ result = Nil
    /\ IsOK(net[Len(net)].out)
    /\ ~HasPrefix(net[Len(net)].out.ct, TSVPrefix)
    /\ bodies[Len(net)] = "closed"

\* A Content-Type that begins with text/tab-separated-values.
IsTabSeparated(ct) == ct # <<>> /\ ct[1] = "text/tab-separated-values"

\* C11: with a handler given, a 200 response whose Content-Type does not begin
\* with text/tab-separated-values ends the call with an error that reports
\* the observed content type; the handler is not invoked and no request
\* follows the one that was answered.
C11_ContentTypeMismatch ==
    \A i \in 1..Len(net) :
        (f # "nil" /\ IsOK(net[i].out)) =>
            IF IsTabSeparated(net[i].out.ct)
            THEN /\ result.kind # "ContentTypeError"
                 /\ handlerCalls = 1
            ELSE /\ pc = "done"
                 /\ result.kind = "ContentTypeError"
                 /\ result.ct = net[i].out.ct
                 /\ handlerCalls = 0
                 /\ reader = 0
                 /\ Len(net) = i
                 /\ bodies[i] = "closed"

\* C11 witness: the primary answered 200 with text/html although a fallback
\* is configured and a handler was given.
C11_Witness ==
    /\ pc = "done"
    /\ f # "nil"
    /\ c.FallbackAddr # ""
    /\ Len(net) = 1
    /\ IsOK(net[1].out)
    /\ net[1].out.ct = <<"text/html">>
    /\ result.kind = "ContentTypeError"

\* C12: after the handler ran, the result is the handler's error when it is
\* not nil, whatever the stream reports; otherwise it is the reader's
\* terminal error, nil when the stream ended cleanly.
C12_HandlerThenStream ==
    (pc = "done" /\ handlerCalls > 0) =>
        /\ fret # NotReturned
        /\ fret.herr # "nil" =>
             result = [kind |-> "HandlerError", msg |-> fret.herr]
        /\ (fret.herr = "nil" /\ fret.serr # "nil") =>
             result = [kind |-> "StreamError", msg |-> fret.serr]
        /\ (fret.herr = "nil" /\ fret.serr = "nil") => result = Nil

\* C12 witness: the handler returned nil and the stream reported an error,
\* which the call returned.
C12_Witness ==
    /\ pc = "done"
    /\ fret.herr = "nil"
    /\ fret.serr = "cannot parse row"
    /\ result.kind = "StreamError"

\* sub occurs in str as a contiguous run of characters.
Contains(str, sub) ==
    \E i \in 1..(Len(str) - Len(sub) + 1) :
        SubSeq(str, i, i + Len(sub) - 1) = sub

\* The URL query texts that the message of an error value shows.
QueryTextsIn(e) ==
    IF e.kind = "Combined"
    THEN { x.cause.rawQuery : x \in { y \in {e.first, e.second} :
                                        y.kind = "TransportError" } }
    ELSE IF e.kind = "TransportError" THEN {e.cause.rawQuery}
    ELSE {}

\* C13: no error a call returns contains the password it was configured
\* with: in a message built from a transport error the password's value is
\* replaced by a redaction marker.
C13_PasswordRedacted ==
    (pc = "done" /\ params.Password # <<>>) =>
        \A t \in QueryTextsIn(result) : ~Contains(t, params.Password)

\* The deadline Do, DoParams and Ping are to run under.
ConfiguredDeadline ==
    [has |-> TRUE,
     at |-> started + (IF c.Timeout <= 0 THEN DefaultTimeout ELSE c.Timeout)]

\* C14 as stated: every request of a call carries a deadline: now + Timeout
\* (DefaultTimeout when Timeout <= 0) in Do, DoParams and Ping, and in
\* DoContext now + DefaultTimeout when the caller's context has none.
C14_AlwaysUnderDeadline ==
    \A i \in 1..Len(net) :
        /\ net[i].req.ctx.has
        /\ op \in {"Ping", "Do", "DoParams"} =>
             net[i].req.ctx = ConfiguredDeadline
        /\ (op = "DoContext" /\ ~ctx.has) =>
             net[i].req.ctx = [has |-> TRUE, at |-> started + DefaultTimeout]

\* C14 amended: Do, DoParams and Ping send every request under the deadline
\* now + Timeout (DefaultTimeout when Timeout <= 0); DoContext sends every
\* request under the caller's context as it is, so without a deadline when
\* the caller's context has none.
C14_DeadlineFromTimeoutOrCaller ==
    \A i \in 1..Len(net) :
        /\ op \in {"Ping", "Do", "DoParams"} =>
             net[i].req.ctx = ConfiguredDeadline
        /\ op = "DoContext" =>
             /\ net[i].req.ctx = ctx
             /\ ~ctx.has => ~net[i].req.ctx.has

\* C14 witness: Do entered after time had passed, on a Client without a
\* Timeout, primary and fallback requests sent.
C14_Witness ==
    /\ op = "Do"
    /\ started > 0
    /\ c.Timeout = 0
    /\ Len(net) = 2
    /\ net[2].req.ctx.at = started + DefaultTimeout

\* The response bodies that are open.
OpenBodies == { i \in DOMAIN bodies : bodies[i] = "open" }

\* C17: at most one response body is open at any point of a call, and while
\* the fallback request exists the primary's body is either absent (transport
\* failure) or closed (status other than 200).
C17_AtMostOneBodyOpen ==
    /\ Cardinality(OpenBodies) <= 1
    /\ Len(net) = 2 =>
         /\ 1 \notin OpenBodies
         /\ IsTransportFailure(net[1].out) => 1 \notin DOMAIN bodies
         /\ IsStatusFailure(net[1].out) =>
              1 \in DOMAIN bodies /\ bodies[1] = "closed"

\* C17 witness: the primary answered with a failure status, its body is
\* closed, and the fallback's body is open under the handler.
C17_Witness ==
    /\ Len(net) = 2
    /\ IsStatusFailure(net[1].out)
    /\ bodies[1] = "closed"
    /\ 2 \in DOMAIN bodies
    /\ bodies[2] = "open"
    /\ pc = "handler"

\* C18: while the handler runs, the body it reads stays open and the call has
\* not returned, whatever the clock shows; the handler's run ends only by the
\* handler returning, and only then is the body closed and the result set.
C18_HandlerJoinedBeforeReturn ==
    /\ [](pc = "handler" =>
            /\ reader \in DOMAIN bodies
            /\ bodies[reader] = "open"
            /\ result = Pending
            /\ fret = NotReturned)
    /\ [][(pc = "handler" /\ (pc' # "handler" \/ bodies' # bodies
                                \/ result' # result)) =>
            /\ fret' # NotReturned
            /\ pc' = "done"
            /\ bodies'[reader] = "closed"]_vars

\* C18 witness: the deadline has passed while the handler is still running.
C18_Witness ==
    /\ pc = "handler"
    /\ Expired(req)
    /\ bodies[reader] = "open"
    /\ result = Pending

\* The status errors an error value holds.
StatusErrorsIn(e) ==
    IF e.kind = "Combined"
    THEN { x \in {e.first, e.second} : x.kind = "StatusError" }
    ELSE IF e.kind = "StatusError" THEN {e}
    ELSE {}

\* C19 as stated: what a status error holds of the response body is cut at a
\* limit that does not grow with the body, so a body of the greatest length
\* is never held in full.
C19_DiagnosticReadBounded ==
    \E limit \in 0..(MaxRows - 1) :
        \A e \in StatusErrorsIn(result) \cup StatusErrorsIn(err) :
            Len(e.body) <= limit

\* C20: the fallback request is the primary request with the fallback address
\* in place of the primary one, and a Content-Type error names the address of
\* the request whose response was validated.
C20_FallbackSameRequest ==
    /\ Len(net) = 2 =>
         /\ net[2].req.method = "POST" /\ net[1].req.method = "POST"
         /\ net[2].req.body = query /\ net[1].req.body = query
         /\ net[2].req.scheme = net[1].req.scheme
         /\ net[2].req.rawQuery = net[1].req.rawQuery
         /\ net[2].req.acceptEncoding = net[1].req.acceptEncoding
         /\ [net[2].req EXCEPT !.addr = net[1].req.addr] = net[1].req
         /\ net[2].req.addr = c.FallbackAddr
    /\ (pc = "done" /\ result.kind = "ContentTypeError") =>
         /\ IsOK(net[Len(net)].out)
         /\ result.addr = net[Len(net)].req.addr
         /\ result.ct = net[Len(net)].out.ct

\* C20 witness: the fallback answered 200 with a Content-Type that is not
\* tab-separated values, and the error names the fallback address.
C20_Witness ==
    /\ pc = "done"
    /\ Len(net) = 2
    /\ c.Params.URLParams # <<>>
    /\ result.kind = "ContentTypeError"
    /\ result.addr = "ch2:8123"
    /\ net[1].req.addr = "ch1:8123"

\* pre is the beginning of str.
IsPrefixOf(pre, str) ==
    Len(pre) <= Len(str) /\ SubSeq(str, 1, Len(pre)) = pre

AloneAddr(i) == IF i = 1 THEN ClientAddr(c) ELSE c.FallbackAddr

\* The i-th request of call k, had the call run alone.
AloneRequest(k, i) ==
    doRequestSend(c, calls[k].ctx, AloneAddr(i), calls[k].q, calls[k].p)

\* The error of the i-th attempt of call k, had the call run alone.
AloneError(k, i) ==
    LET o == calls[k].outs[i]
    IN  IF IsTransportFailure(o)
        THEN [kind |-> "TransportError", query |-> calls[k].q,
              addr |-> AloneAddr(i),
              cause |-> [method |-> "POST", scheme |-> AloneRequest(k, i).scheme,
                         addr |-> AloneAddr(i),
                         rawQuery |-> AloneRequest(k, i).rawQuery,
                         why |-> o.kind]]
        ELSE [kind |-> "StatusError", query |-> calls[k].q,
              addr |-> AloneAddr(i), code |-> o.status, body |-> o.body]

\* The result of call k, had it run alone and got the same answers.
AloneResult(k) ==
    LET outs == calls[k].outs
    IN  IF IsOK(outs[Len(outs)]) THEN [kind |-> "nil"]
        ELSE IF Len(outs) = 1 THEN AloneError(k, 1)
        ELSE [kind |-> "Combined", first |-> AloneError(k, 1),
              second |-> AloneError(k, 2)]

\* C15: no step of any call changes the Client, the array behind its
\* URLParams (its spare cells included) or the Params the call was given, and
\* every request and the result of each of the interleaved calls are those of
\* the same call running alone.
C15_NoSharedMutableState ==
    /\ [](\A k \in Calls :
            /\ \A i \in 1..Len(calls[k].reqs) :
                 calls[k].reqs[i] = AloneRequest(k, i)
            /\ calls[k].pc = "done" => calls[k].result = AloneResult(k))
    /\ [][/\ c' = c
          /\ spare' = spare
          /\ \A k \in Calls :
               calls[k].pc # "idle" =>
                 /\ calls'[k].p = calls[k].p
                 /\ calls'[k].ctx = calls[k].ctx
                 /\ calls'[k].q = calls[k].q]_vars

\* C15 witness: call A, on its fallback attempt, is in the middle of
\* prepareRequest while call B, with other Params over the same URLParams
\* slice, has built its arguments and is about to send its request.
C15_Witness ==
    /\ calls["A"].pc = "database"
    /\ Len(calls["A"].reqs) = 1
    /\ calls["B"].pc = "send"
    /\ calls["A"].p # calls["B"].p
    /\ calls["A"].p.URLParams # <<>>
    /\ calls["A"].p.URLParams = calls["B"].p.URLParams

====
